---- MODULE Spec2Model ----
(***************************************************************************)
(* A model of html_footer.py: the mail filter that turns a text/plain      *)
(* body whose signature holds an <html> ... </html> region into a          *)
(* multipart/alternative (plain, html) body.                                *)
(*                                                                         *)
(* Text is a sequence of tokens; a token is a string and the text is the   *)
(* concatenation of its tokens.  The tokens are chosen so that the         *)
(* program's regular expressions can only match on token boundaries.       *)
(***************************************************************************)
EXTENDS Integers, Sequences, FiniteSets, TLC

\* ------------------------------------------------------------------ bounds
MaxLines == 4
MaxHdrs  == 3
MaxParts == 3
MaxSigLines == 7

\* ------------------------------------------------------------------ tokens
NL == "\n"
SP == " "
DD == "--"
HT == "<html>"
HE == "</html>"
TX == "x"
MK == "<b>Bold</b>"

IMG_LOGO    == "<img src=\"logo.png\">"
IMG_FILE    == "<img alt=\"l\" src=\"file:///srv/logo.png\" width=\"9\">"
IMG_HTTP    == "<img src=\"http://example.org/logo.png\">"
IMG_MISSING == "<img src=\"missing.png\">"
ImgTokens   == {IMG_LOGO, IMG_FILE, IMG_HTTP, IMG_MISSING}

PRE_OPEN    == "<pre id=\"plaintext\">\n"
PRE_CLOSE   == "</pre>\n"
HTML_HEADER == "<!DOCTYPE HTML PUBLIC \"-//W3C//DTD HTML 4.01 Transitional//EN\"\n    \"http://www.w3.org/TR/html4/loose.dtd\">\n<head>\n<meta http-equiv=\"content-type\" content=\"text/html; charset=UTF-8\">\n<style type=\"text/css\">\n#plaintext      {\n    font-family:Fixedsys,Courier,monospace;\n    padding:10px;\n    white-space:pre-wrap;\n}\n</style>\n</head>\n<body>\n"
HTML_FOOTER == "</body>\n</html>"

\* ------------------------------------------------------------ text helpers
\* \s of the regular expressions, on tokens
IsSpace(t) == t \in {SP, NL}

\* ^ under re.MULTILINE: the start of the text or just after a newline
LineStart(txt, i) == i = 1 \/ txt[i - 1] = NL

Drop(txt, n) == SubSeq(txt, n + 1, Len(txt))

RECURSIVE Flatten(_)
Flatten(ss) == IF ss = <<>> THEN <<>> ELSE Head(ss) \o Flatten(Tail(ss))

\* unicode.split(u'\n'): the pieces between the newlines; a text that ends
\* with a newline has a last, empty piece
RECURSIVE SplitNL(_)
SplitNL(txt) ==
    IF \A i \in 1..Len(txt) : txt[i] # NL THEN <<txt>>
    ELSE LET i == CHOOSE k \in 1..Len(txt) :
                      txt[k] = NL /\ \A j \in 1..(k - 1) : txt[j] # NL
         IN <<SubSeq(txt, 1, i - 1)>> \o SplitNL(Drop(txt, i))

\* txt2html
txt2html(txt) == <<PRE_OPEN>> \o txt \o <<PRE_CLOSE>>

\* ------------------------------------------------------- MIMEChanger regex
\* RXP_SIGNATURE = (.*)^--\s+(.*) under MULTILINE | DOTALL: the positions
\* where ^--\s can match
SigDelimAt(txt, i) ==
    /\ i + 1 <= Len(txt)
    /\ LineStart(txt, i)
    /\ txt[i] = DD
    /\ IsSpace(txt[i + 1])

SigDelims(txt) == {i \in 1..Len(txt) : SigDelimAt(txt, i)}

\* the greedy \s+ : the first position from i on that holds no white space
RECURSIVE SkipSpace(_, _)
SkipSpace(txt, i) ==
    IF i <= Len(txt) /\ IsSpace(txt[i]) THEN SkipSpace(txt, i + 1) ELSE i

\* the greedy first group (.*) gives way from the end of the text: the match
\* is at the last position where ^--\s+ matches
RXP_SIGNATURE_pos(txt) == CHOOSE p \in SigDelims(txt) : \A q \in SigDelims(txt) : q <= p

\* MIMEChanger._split_content
_split_content(txt) ==
    IF SigDelims(txt) = {} THEN <<txt, <<>>>>
    ELSE LET p == RXP_SIGNATURE_pos(txt)
         IN <<SubSeq(txt, 1, p - 1), Drop(txt, SkipSpace(txt, p + 1) - 1)>>

\* RXP_SIG_HTML = ^<html>\n under MULTILINE
SigHtmlAt(txt, i) ==
    /\ i + 1 <= Len(txt)
    /\ LineStart(txt, i)
    /\ txt[i] = HT
    /\ txt[i + 1] = NL

RXP_SIG_HTML_search(txt) == \E i \in 1..Len(txt) : SigHtmlAt(txt, i)

\* MIMEChanger._split_signature: RXP_SIG_HTML.split(txt, 1)
_split_signature(txt) ==
    IF ~RXP_SIG_HTML_search(txt) THEN <<txt>>
    ELSE LET i == CHOOSE k \in 1..Len(txt) :
                      SigHtmlAt(txt, k) /\ \A j \in 1..(k - 1) : ~SigHtmlAt(txt, j)
         IN <<SubSeq(txt, 1, i - 1), Drop(txt, i + 1)>>

\* ------------------------------------------------ new_payload, lines 331-360
\* the segments as the calls of add_html and add_txt make them: a line joins
\* the segment that is still growing (open), or begins a new one.  Successive
\* add_html calls concatenate into one run of raw markup; the lines gathered
\* in txtbuffer become one add_txt block.
add_line(segs, tag, line, open) ==
    IF open
    THEN [segs EXCEPT ![Len(segs)].lines = Append(@, line)]
    ELSE Append(segs, [tag |-> tag, lines |-> <<line>>])

\* footer_line with the flush of the <html> branch lost: the plain text
\* gathered so far stays in txtbuffer and reaches the html text at the end
footer_line_no_flush(st, line) ==
    IF line = <<HT>> THEN
        [st EXCEPT !.state_html = TRUE]
    ELSE IF line = <<HE>> THEN
        [st EXCEPT !.state_html = FALSE]
    ELSE IF st.state_html THEN
        [st EXCEPT !.html = @ \o line \o <<NL>>,
                   !.segs = add_line(@, "Html", line,
                                     @ # <<>> /\ @[Len(@)].tag = "Html")]
    ELSE
        [st EXCEPT !.txtbuffer = @ \o line \o <<NL>>,
                   !.text = @ \o line \o <<NL>>,
                   !.segs = add_line(@, "Plain", line, st.txtbuffer # <<>>)]

\* footer_line with the </html> branch lost: the mode never goes back to Plain
footer_line_no_close(st, line) ==
    IF line = <<HT>> THEN
        [st EXCEPT !.state_html = TRUE,
                   !.html = IF st.txtbuffer # <<>> THEN @ \o txt2html(st.txtbuffer) ELSE @,
                   !.txtbuffer = <<>>]
    ELSE IF line = <<HE>> THEN st
    ELSE IF st.state_html THEN
        [st EXCEPT !.html = @ \o line \o <<NL>>,
                   !.segs = add_line(@, "Html", line,
                                     @ # <<>> /\ @[Len(@)].tag = "Html")]
    ELSE
        [st EXCEPT !.txtbuffer = @ \o line \o <<NL>>,
                   !.text = @ \o line \o <<NL>>,
                   !.segs = add_line(@, "Plain", line, st.txtbuffer # <<>>)]

\* one pass of the loop over footer.split(u'\n'); st is the loop's state
footer_line(st, line) ==
    IF line = <<HT>> THEN
        [st EXCEPT !.state_html = TRUE,
                   !.html = IF st.txtbuffer # <<>> THEN @ \o txt2html(st.txtbuffer) ELSE @,
                   !.txtbuffer = <<>>]
    ELSE IF line = <<HE>> THEN
        [st EXCEPT !.state_html = FALSE]
    ELSE IF st.state_html THEN
        [st EXCEPT !.html = @ \o line \o <<NL>>,
                   !.segs = add_line(@, "Html", line,
                                     @ # <<>> /\ @[Len(@)].tag = "Html")]
    ELSE
        [st EXCEPT !.txtbuffer = @ \o line \o <<NL>>,
                   !.text = @ \o line \o <<NL>>,
                   !.segs = add_line(@, "Plain", line, st.txtbuffer # <<>>)]

RECURSIVE footer_loop(_, _)
footer_loop(st, lines) ==
    IF lines = <<>> THEN st ELSE footer_loop(footer_line(st, Head(lines)), Tail(lines))

\* lines 326-360: the plain text and the html text built from the decoded body
assemble(content) ==
    LET cs     == _split_content(content)
        parts  == _split_signature(cs[2])
        footer == IF Len(parts) >= 2 THEN parts[2] ELSE <<>>
        pre    == SplitNL(parts[1])
        st0    == [state_html |-> TRUE,
                   txtbuffer  |-> <<>>,
                   segs       |-> IF parts[1] = <<>> THEN <<>>
                                  ELSE <<[tag |-> "Plain",
                                          lines |-> IF pre[Len(pre)] = <<>>
                                                    THEN SubSeq(pre, 1, Len(pre) - 1)
                                                    ELSE pre]>>,
                   text       |-> cs[1] \o <<DD, SP, NL>> \o parts[1],
                   html       |-> <<HTML_HEADER>> \o txt2html(cs[1])]
        st     == footer_loop(st0, SplitNL(footer))
    IN [text |-> st.text,
        segs |-> st.segs,
        html |-> IF st.txtbuffer # <<>> THEN st.html \o txt2html(st.txtbuffer) ELSE st.html]

\* ------------------------------------------------------------ MIME objects
\* A part is [hdrs, body, parts, multi]: its headers in order, as <<name,
\* value>> pairs; its decoded payload (a leaf); its children (a multipart).
Leaf(hdrs, body)   == [hdrs |-> hdrs, body |-> body, parts |-> <<>>, multi |-> FALSE]
Multi(hdrs, parts) == [hdrs |-> hdrs, body |-> <<>>, parts |-> parts, multi |-> TRUE]

CT_PLAIN_UTF8 == "text/plain; charset=utf-8"
CT_PLAIN      == "text/plain"
CT_HTML_UTF8  == "text/html; charset=utf-8"
CT_PDF        == "application/pdf"
CT_MIXED      == "multipart/mixed; boundary=\"B\""
CT_ALT        == "multipart/alternative"
CT_ALT_UTF8   == "multipart/alternative; charset=\"utf-8\""
CT_ALT_C      == "multipart/alternative; boundary=\"C\""
CT_REL        == "multipart/related"
CT_PLAIN_Q    == "text/plain; charset=\"utf-8\""
CT_HTML_Q     == "text/html; charset=\"utf-8\""
CT_PNG        == "image/png"
VERSION_HDR   == "Html Footer 20120227"

\* str.lower() of a header name
Lower(name) ==
    CASE name = "Content-Type" -> "content-type"
      [] name = "MIME-Version" -> "mime-version"
      [] name = "Content-Transfer-Encoding" -> "content-transfer-encoding"
      [] name = "Content-ID" -> "content-id"
      [] name = "Content-Disposition" -> "content-disposition"
      [] name = "Subject" -> "subject"
      [] name = "Received" -> "received"
      [] name = "X-Modified-By" -> "x-modified-by"
      [] OTHER -> name

\* k.startswith('Content-')
StartsWithContent(name) ==
    name \in {"Content-Type", "Content-Transfer-Encoding", "Content-ID",
              "Content-Disposition"}

\* the maintype/subtype of a Content-Type value
TypeOfValue(v) ==
    CASE v \in {CT_PLAIN_UTF8, CT_PLAIN, CT_PLAIN_Q} -> "text/plain"
      [] v \in {CT_HTML_UTF8, CT_HTML_Q} -> "text/html"
      [] v = CT_PDF -> "application/pdf"
      [] v = CT_MIXED -> "multipart/mixed"
      [] v \in {CT_ALT, CT_ALT_UTF8, CT_ALT_C} -> "multipart/alternative"
      [] v = CT_REL -> "multipart/related"
      [] v = CT_PNG -> "image/png"
      [] OTHER -> "text/plain"

\* the charset parameter of a Content-Type value, "" when it has none
CharsetOfValue(v) ==
    IF v \in {CT_PLAIN_UTF8, CT_PLAIN_Q, CT_HTML_UTF8, CT_HTML_Q, CT_ALT_UTF8}
    THEN "utf-8" ELSE ""

\* the parameters of a Content-Type value as Message.set_param writes them back
ParamsOfValue(v) ==
    CASE v \in {CT_PLAIN_UTF8, CT_PLAIN_Q, CT_HTML_UTF8, CT_HTML_Q, CT_ALT_UTF8}
             -> "; charset=\"utf-8\""
      [] v = CT_MIXED -> "; boundary=\"B\""
      [] v = CT_ALT_C -> "; boundary=\"C\""
      [] OTHER -> ""

\* Message.__contains__, Message.get: header names compare without case
HasHeader(hdrs, name) == \E i \in 1..Len(hdrs) : Lower(hdrs[i][1]) = Lower(name)
GetHeader(hdrs, name) ==
    LET i == CHOOSE k \in 1..Len(hdrs) :
                 /\ Lower(hdrs[k][1]) = Lower(name)
                 /\ \A j \in 1..(k - 1) : Lower(hdrs[j][1]) # Lower(name)
    IN hdrs[i][2]
\* Message.__delitem__: every header of that name goes
DelHeader(hdrs, name) == SelectSeq(hdrs, LAMBDA h : Lower(h[1]) # Lower(name))

\* Message.get_content_type; a part without the header is text/plain
get_content_type(part) ==
    IF HasHeader(part.hdrs, "Content-Type")
    THEN TypeOfValue(GetHeader(part.hdrs, "Content-Type")) ELSE "text/plain"

\* Message.get_content_charset(Charset()): "" stands for the Charset object
\* handed back when the part names no charset
get_content_charset(part) ==
    IF HasHeader(part.hdrs, "Content-Type")
    THEN CharsetOfValue(GetHeader(part.hdrs, "Content-Type")) ELSE ""

\* payload2unicode: str.decode wants a string for the encoding and raises
\* TypeError when handed the Charset object
payload2unicode(part) ==
    IF get_content_charset(part) = ""
    THEN [err |-> "TypeError", txt |-> <<>>]
    ELSE [err |-> "none", txt |-> part.body]

\* first_text
first_text(m) ==
    IF ~m.multi THEN
        IF get_content_type(m) # "text/plain"
        THEN [err |-> "none", txt |-> <<>>] ELSE payload2unicode(m)
    ELSE IF \E i \in 1..Len(m.parts) : get_content_type(m.parts[i]) = "text/plain"
         THEN payload2unicode(m.parts[CHOOSE i \in 1..Len(m.parts) :
                  /\ get_content_type(m.parts[i]) = "text/plain"
                  /\ \A j \in 1..(i - 1) : get_content_type(m.parts[j]) # "text/plain"])
         ELSE [err |-> "none", txt |-> <<>>]

\* _process_multi, lines 250-255: the index of the first text/plain child,
\* or one past the last child
RECURSIVE find_plain(_, _)
find_plain(parts, i) ==
    IF i > Len(parts) THEN i
    ELSE IF get_content_type(parts[i]) = "text/plain" THEN i
    ELSE find_plain(parts, i + 1)

\* _process_multi's search without its break: the last text/plain child
_process_multi_index_last(parts) ==
    LET ps == {i \in 1..Len(parts) : get_content_type(parts[i]) = "text/plain"}
    IN IF ps = {} THEN Len(parts) + 1 ELSE CHOOSE i \in ps : \A j \in ps : j <= i

_process_multi_index(parts) == find_plain(parts, 1)

\* MIMEChanger.msg_is_to_alter, on the decoded text
msg_is_to_alter(txt) == RXP_SIG_HTML_search(_split_content(txt)[2])

\* MIMEText(text, subtype, 'utf-8')
MIMEText(txt, ctvalue) ==
    Leaf(<<<<"Content-Type", ctvalue>>, <<"MIME-Version", "1.0">>,
           <<"Content-Transfer-Encoding", "base64">>>>, txt)

\* MIMEMultipart(subtype)
MIMEMultipart(ctvalue, parts) ==
    Multi(<<<<"Content-Type", ctvalue>>, <<"MIME-Version", "1.0">>>>, parts)

\* Message.set_type('multipart/alternative') on the copied headers
set_type(hdrs) ==
    LET h1 == DelHeader(hdrs, "MIME-Version") \o <<<<"MIME-Version", "1.0">>>>
    IN IF ~HasHeader(h1, "Content-Type")
       THEN h1 \o <<<<"Content-Type", CT_ALT>>>>
       ELSE DelHeader(h1, "Content-Type")
            \o <<<<"Content-Type", CT_ALT \o ParamsOfValue(GetHeader(h1, "Content-Type"))>>>>

\* copy_headers with strip_content off: the Content- headers are copied too
copy_headers_all(hdrs) == hdrs

\* copy_mime_root, its headers: the loop of lines 204-207, then set_type
RECURSIVE copy_headers(_)
copy_headers(hdrs) ==
    IF hdrs = <<>> THEN <<>>
    ELSE IF StartsWithContent(Head(hdrs)[1]) THEN copy_headers(Tail(hdrs))
    ELSE <<Head(hdrs)>> \o copy_headers(Tail(hdrs))

copy_mime_root(m) == Multi(set_type(copy_headers(m.hdrs)), <<>>)

\* Message.add_header('X-Modified-By', ...), X_HEADER being True
add_x_header(m) == [m EXCEPT !.hdrs = @ \o <<<<"X-Modified-By", VERSION_HDR>>>>]

\* ------------------------------------------------------ HyperTextFormatter
\* RXP_IMG_TAG = (<img\s[^>]*src=")([^"]+)("[^>]*>): its three groups on a tag
IsImgTag(t) == t \in ImgTokens
ImgGroup1(t) == IF t = IMG_FILE THEN "<img alt=\"l\" src=\"" ELSE "<img src=\""
ImgGroup2(t) ==
    CASE t = IMG_LOGO -> "logo.png"
      [] t = IMG_FILE -> "file:///srv/logo.png"
      [] t = IMG_HTTP -> "http://example.org/logo.png"
      [] t = IMG_MISSING -> "missing.png"
ImgGroup3(t) == IF t = IMG_FILE THEN "\" width=\"9\">" ELSE "\">"

\* urlparse(src): the scheme, the path and the last component of the path
UrlScheme(src) ==
    CASE src = "file:///srv/logo.png" -> "file"
      [] src = "http://example.org/logo.png" -> "http"
      [] OTHER -> ""
UrlPath(src) ==
    CASE src = "file:///srv/logo.png" -> "/srv/logo.png"
      [] src = "http://example.org/logo.png" -> "/logo.png"
      [] OTHER -> src
BaseName(path) ==
    CASE path \in {"/srv/logo.png", "/logo.png", "logo.png"} -> "logo.png"
      [] OTHER -> path

\* RXP_IMG_TAG.search and the tags RXP_IMG_TAG.sub visits, left to right
ImgPositions(txt) == {i \in 1..Len(txt) : IsImgTag(txt[i])}

\* HyperTextFormatter.has_attachments: with a tag found, line 187 indexes the
\* urlparse result with the tuple (0, 3, 2), which raises TypeError; lines
\* 188-189 are never reached
has_attachments(txt) == IF ImgPositions(txt) = {} THEN "False" ELSE "TypeError"

\* make_msgid("part%i" % n) and img_id.strip('<>')
MsgIdInner(n) == "id.part" \o ToString(n) \o "@host"
make_msgid(n) == "<" \o MsgIdInner(n) \o ">"

\* replacer's MIMEImage with its Content-ID and Content-Disposition
MIMEImage(path, n) ==
    Leaf(<<<<"Content-Type", CT_PNG>>, <<"MIME-Version", "1.0">>,
           <<"Content-Transfer-Encoding", "base64">>,
           <<"Content-ID", make_msgid(n)>>,
           <<"Content-Disposition", "attachment; filename=\"" \o path \o "\"">>>>,
         <<BaseName(path)>>)

\* create_mime_attachments: re.sub calls replacer on every tag in turn; open
\* raises IOError on a file the directory does not hold, and then self.txt
\* keeps its old value
RECURSIVE replace_imgs(_, _, _)
replace_imgs(h, todo, dir) ==
    IF todo = <<>> THEN [h EXCEPT !.txt = h.done, !.err = "none"]
    ELSE LET t == Head(todo) IN
         IF ~IsImgTag(t) THEN replace_imgs([h EXCEPT !.done = @ \o <<t>>], Tail(todo), dir)
         ELSE IF BaseName(UrlPath(ImgGroup2(t))) \notin dir THEN [h EXCEPT !.err = "IOError"]
         ELSE replace_imgs(
                  [h EXCEPT !.done = @ \o <<ImgGroup1(t) \o "cid:" \o MsgIdInner(h.parts)
                                             \o ImgGroup3(t)>>,
                            !.attachments = @ \o <<MIMEImage(UrlPath(ImgGroup2(t)), h.parts)>>,
                            !.parts = @ + 1],
                  Tail(todo), dir)

create_mime_attachments(html0, dir) ==
    LET r == replace_imgs([txt |-> html0.txt, attachments |-> html0.attachments,
                           parts |-> html0.parts, done |-> <<>>, err |-> "none"],
                          html0.txt, dir)
    IN [err |-> r.err,
        html |-> [txt |-> r.txt, attachments |-> r.attachments, parts |-> r.parts]]

\* ------------------------------------------------------------------ inputs
BoundedSeq(S, n) == UNION {[1..k -> S] : k \in 0..n}

\* the lines a body is made of
LineKinds == {<<>>, <<TX>>, <<DD, SP>>, <<DD>>, <<DD, SP, TX>>, <<HT>>, <<HE>>, <<TX, HT>>}

\* the body with these lines; nl: whether the last line ends with a newline
BodyOf(lines, nl) ==
    LET all == Flatten([i \in 1..Len(lines) |-> lines[i] \o <<NL>>])
    IN IF nl \/ lines = <<>> THEN all ELSE SubSeq(all, 1, Len(all) - 1)

B_EXAMPLE == <<"Hello", NL, DD, SP, NL, "Best,", NL, "Me", NL, HT, NL, MK, NL, HE, NL>>
B_PLAIN   == <<"Hello", NL>>
B_ELIG    == <<TX, NL, DD, SP, NL, HT, NL, MK, NL, HE, NL>>
B_LOGO    == <<TX, NL, DD, SP, NL, HT, NL, IMG_LOGO, NL, HE, NL>>
B_FILE    == <<TX, NL, DD, SP, NL, HT, NL, IMG_FILE, NL, HE, NL>>
B_HTTP    == <<TX, NL, DD, SP, NL, HT, NL, IMG_HTTP, NL, HE, NL>>
B_MISSING == <<TX, NL, DD, SP, NL, HT, NL, IMG_MISSING, NL, HE, NL>>
B_TWO     == <<TX, NL, DD, SP, NL, HT, NL, IMG_HTTP, NL, IMG_LOGO, NL, HE, NL>>
MimeBodies == {B_EXAMPLE, B_PLAIN, B_ELIG, B_LOGO, B_FILE, B_HTTP, B_MISSING, B_TWO}

H_SUBJECT == <<"Subject", "s">>
HdrKinds == {H_SUBJECT, <<"Received", "r">>, <<"MIME-Version", "1.0">>,
             <<"Content-Type", CT_PLAIN_UTF8>>, <<"content-type", CT_PLAIN_UTF8>>,
             <<"Content-Transfer-Encoding", "7bit">>, <<"Content-Type", CT_PLAIN>>}

ChildKinds == {Leaf(<<<<"Content-Type", CT_PLAIN_UTF8>>>>, B_ELIG),
               Leaf(<<<<"Content-Type", CT_PLAIN_UTF8>>>>, B_PLAIN),
               Leaf(<<<<"Content-Type", CT_PLAIN_UTF8>>>>, B_LOGO),
               Leaf(<<<<"Content-Type", CT_PLAIN>>>>, B_ELIG),
               Leaf(<<<<"Content-Type", CT_HTML_UTF8>>>>, B_ELIG),
               Leaf(<<<<"Content-Type", CT_PDF>>, <<"Content-Transfer-Encoding", "base64">>>>,
                    <<"PDF">>),
               Multi(<<<<"Content-Type", CT_ALT_C>>>>,
                     <<Leaf(<<<<"Content-Type", CT_PLAIN_UTF8>>>>, B_ELIG),
                       Leaf(<<<<"Content-Type", CT_HTML_UTF8>>>>, <<MK, NL>>)>>)}

ImageDirs == {{}, {"logo.png"}}

\* single-part text/plain messages over every body of at most MaxLines lines
TextInputs ==
    {Leaf(<<H_SUBJECT, <<"Content-Type", CT_PLAIN_UTF8>>>>, BodyOf(ls, nl)) :
        ls \in BoundedSeq(LineKinds, MaxLines), nl \in BOOLEAN}
\* single-part messages over every header list of at most MaxHdrs headers
HeaderInputs == {Leaf(hs, B_ELIG) : hs \in BoundedSeq(HdrKinds, MaxHdrs)}
\* single-part messages over the bodies with image tags
BodyInputs ==
    {Leaf(<<H_SUBJECT, <<"Content-Type", v>>>>, b) :
        v \in {CT_PLAIN_UTF8, CT_PLAIN, CT_HTML_UTF8}, b \in MimeBodies}
\* line i of a signature: a marker line, or a text line unlike every other
SigLine(i, c) ==
    CASE c = "open" -> <<HT>>
      [] c = "close" -> <<HE>>
      [] OTHER -> <<"line" \o ToString(i)>>
\* single-part text/plain messages over every signature of at most MaxSigLines
\* lines, each a text line, <html> or </html>
SigInputs ==
    {Leaf(<<H_SUBJECT, <<"Content-Type", CT_PLAIN_UTF8>>>>,
          <<"Hello", NL, DD, SP, NL>> \o BodyOf([i \in 1..Len(cs) |-> SigLine(i, cs[i])], nl)) :
        cs \in BoundedSeq({"text", "open", "close"}, MaxSigLines), nl \in BOOLEAN}
\* multipart/mixed messages over every list of 1..MaxParts children
MultiInputs ==
    {Multi(<<H_SUBJECT, <<"MIME-Version", "1.0">>, <<"Content-Type", CT_MIXED>>>>, cs) :
        cs \in BoundedSeq(ChildKinds, MaxParts) \ {<<>>}}

\* ------------------------------------------------------------------- state
VARIABLES
    msg_in,     \* modify_data's argument, as parsed
    orig,       \* the message first handed in
    imagepath,  \* the file names in options.imagepath
    pc,         \* "start", "decided", "assembled", "built", "returned", "raised"
    round,      \* which call of modify_data this is
    msg,        \* the Message object at work (changed in place by _process_multi)
    eligible,   \* what msg_is_to_alter answered
    split,      \* what the last call of _split_content returned
    text,       \* new_payload's text
    html,       \* new_payload's HyperTextFormatter
    segs,       \* the segments new_payload has emitted, as [tag, lines]
    pload,      \* what new_payload returned, <<>> before
    out,        \* what modify_data returned, <<>> before
    err,        \* the exception raised, "none" before
    mode,       \* options.pipemode: "pipe", or "smtp" for the proxy
    stdout,     \* what has been written to sys.stdout, one entry a write
    delivered,  \* what _deliver has been handed
    reply       \* what process_message returned, <<>> before

vars == <<msg_in, orig, imagepath, pc, round, msg, eligible, split, text, html, segs,
          pload, out, err, mode, stdout, delivered, reply>>

\* what only the two front ends change
io == <<mode, stdout, delivered, reply>>

NoHtml == [txt |-> <<>>, attachments |-> <<>>, parts |-> 1]

Start(m, dir) ==
    /\ msg_in = m /\ orig = m /\ msg = m /\ imagepath = dir
    /\ pc = "start" /\ round = 1 /\ eligible = FALSE
    /\ split = <<<<>>, <<>>>> /\ text = <<>> /\ html = NoHtml /\ segs = <<>>
    /\ pload = <<>> /\ out = <<>> /\ err = "none"
    /\ mode \in {"pipe", "smtp"}
    /\ stdout = <<>> /\ delivered = <<>> /\ reply = <<>>

Init ==
    \/ \E m \in TextInputs : Start(m, {"logo.png"})
    \/ \E m \in HeaderInputs : Start(m, {"logo.png"})
    \/ \E m \in BodyInputs, dir \in ImageDirs : Start(m, dir)
    \/ \E m \in MultiInputs, dir \in ImageDirs : Start(m, dir)
    \/ \E m \in SigInputs : Start(m, {"logo.png"})

\* ----------------------------------------------------------------- actions
\* modify_data, line 488: mymime.msg_is_to_alter(msg)
MsgIsToAlter ==
    /\ pc = "start"
    /\ LET r == first_text(msg) IN
       IF r.err # "none"
       THEN /\ pc' = "raised" /\ err' = r.err
            /\ UNCHANGED <<eligible, split>>
       ELSE /\ pc' = "decided"
            /\ split' = _split_content(r.txt)
            /\ eligible' = msg_is_to_alter(r.txt)
            /\ err' = err
    /\ UNCHANGED io
    /\ UNCHANGED <<msg_in, orig, imagepath, round, msg, text, html, segs, pload, out>>

\* modify_data, lines 493-495: the input string is handed back
ReturnUnaltered ==
    /\ pc = "decided" /\ ~eligible
    /\ out' = <<msg_in>>
    /\ pc' = "returned"
    /\ UNCHANGED io
    /\ UNCHANGED <<msg_in, orig, imagepath, round, msg, eligible, split, text, html,
                   segs, pload, err>>

\* the part new_payload is called on: the message itself (_process_plain) or
\* pload[i] (_process_multi, line 258)
new_payload_arg(m) == IF m.multi THEN m.parts[_process_multi_index(m.parts)] ELSE m

\* new_payload, lines 326-360
NewPayloadText ==
    /\ pc = "decided" /\ eligible
    /\ LET part == new_payload_arg(msg) IN
       IF get_content_charset(part) = ""
       THEN /\ pc' = "raised" /\ err' = "TypeError"
            /\ UNCHANGED <<split, text, html, segs>>
       ELSE LET a == assemble(part.body) IN
            /\ split' = _split_content(part.body)
            /\ text' = a.text
            /\ html' = [txt |-> a.html, attachments |-> <<>>, parts |-> 1]
            /\ segs' = a.segs
            /\ pc' = "assembled"
            /\ err' = err
    /\ UNCHANGED io
    /\ UNCHANGED <<msg_in, orig, imagepath, round, msg, eligible, pload, out>>

\* new_payload, lines 362-378
NewPayloadMime ==
    /\ pc = "assembled"
    /\ LET h == has_attachments(html.txt)
           c == create_mime_attachments(html, imagepath)
       IN IF h = "TypeError"
          THEN /\ pc' = "raised" /\ err' = "TypeError"
               /\ UNCHANGED <<html, pload>>
          ELSE IF h = "True" /\ c.err # "none"
          THEN /\ pc' = "raised" /\ err' = c.err
               /\ html' = c.html
               /\ UNCHANGED pload
          ELSE LET h1 == IF h = "True" THEN c.html ELSE html
                   h2 == [h1 EXCEPT !.txt = @ \o <<HTML_FOOTER>>]
                   msg_html == IF h = "True"
                               THEN MIMEMultipart(CT_REL, <<MIMEText(h2.txt, CT_HTML_Q)>>
                                                          \o h2.attachments)
                               ELSE MIMEText(h2.txt, CT_HTML_Q)
               IN /\ html' = h2
                  /\ pload' = <<MIMEMultipart(CT_ALT, <<MIMEText(text, CT_PLAIN_Q), msg_html>>)>>
                  /\ pc' = "built"
                  /\ err' = err
    /\ UNCHANGED io
    /\ UNCHANGED <<msg_in, orig, imagepath, round, msg, eligible, split, text, segs, out>>

\* _process_plain: the new root with the two parts of the new payload
_process_plain(m, new_pl) == [copy_mime_root(m) EXCEPT !.parts = new_pl.parts]

\* _process_multi, line 258: the child is replaced in the message itself
_process_multi(m, new_pl) == [m EXCEPT !.parts[_process_multi_index(m.parts)] = new_pl]

\* alter_message on a message that is not multipart, and modify_data's return
AlterPlain ==
    /\ pc = "built" /\ ~msg.multi
    /\ out' = <<add_x_header(_process_plain(msg, pload[1]))>>
    /\ pc' = "returned"
    /\ UNCHANGED io
    /\ UNCHANGED <<msg_in, orig, imagepath, round, msg, eligible, split, text, html,
                   segs, pload, err>>

\* alter_message on a multipart message, and modify_data's return
AlterMulti ==
    /\ pc = "built" /\ msg.multi
    /\ msg' = add_x_header(_process_multi(msg, pload[1]))
    /\ out' = <<msg'>>
    /\ pc' = "returned"
    /\ UNCHANGED io
    /\ UNCHANGED <<msg_in, orig, imagepath, round, eligible, split, text, html, segs,
                   pload, err>>

\* modify_data is called again on the string it handed back unaltered
Resubmit ==
    /\ pc = "returned" /\ ~eligible /\ round = 1
    /\ msg_in' = out[1] /\ msg' = out[1]
    /\ pc' = "start" /\ round' = 2
    /\ out' = <<>>
    /\ UNCHANGED io
    /\ UNCHANGED <<orig, imagepath, eligible, split, text, html, segs, pload, err>>

\* ---------------------------------------------------------- the front ends
\* what modify_data hands back: the input string itself (line 495), or the
\* altered message serialized by as_string(unixfrom=True) (line 492)
modify_data_result ==
    [form |-> IF eligible THEN "as_string" ELSE "input", msg |-> out[1]]

\* the input string as it was read
input_verbatim(m) == [form |-> "input", msg |-> m]

\* pipemode without its except clause: an exception leaves stdout as it is
pipemode_no_handler(so, raised, data, input) ==
    IF raised THEN so ELSE Append(so, data)

\* pipemode, lines 509-516: sys.stdout.write(msg_out), or in the except
\* clause sys.stdout.write(msg_in)
pipemode(so, raised, data, input) ==
    IF raised THEN Append(so, input_verbatim(input)) ELSE Append(so, data)

\* pipe mode after modify_data has returned
PipeWrite ==
    /\ mode = "pipe" /\ pc = "returned"
    /\ stdout' = pipemode(stdout, FALSE, modify_data_result, msg_in)
    /\ pc' = "done"
    /\ UNCHANGED <<msg_in, orig, imagepath, round, msg, eligible, split, text, html, segs,
                   pload, out, err, mode, delivered, reply>>

\* pipe mode after modify_data has raised
PipeExcept ==
    /\ mode = "pipe" /\ pc = "raised"
    /\ stdout' = pipemode(stdout, TRUE, <<>>, msg_in)
    /\ pc' = "done"
    /\ UNCHANGED <<msg_in, orig, imagepath, round, msg, eligible, split, text, html, segs,
                   pload, out, err, mode, delivered, reply>>

\* process_message, lines 386-396, after modify_data has returned: the data
\* is handed to _deliver, which answers with the refused addresses
ProcessMessageDeliver ==
    /\ mode = "smtp" /\ pc = "returned"
    /\ delivered' = Append(delivered, modify_data_result)
    /\ \E refused \in BOOLEAN :
          reply' = IF refused THEN <<"550 content rejected:">> ELSE <<"None">>
    /\ pc' = "done"
    /\ UNCHANGED <<msg_in, orig, imagepath, round, msg, eligible, split, text, html, segs,
                   pload, out, err, mode, stdout>>

\* process_message, lines 389-391, after modify_data has raised
ProcessMessageExcept ==
    /\ mode = "smtp" /\ pc = "raised"
    /\ reply' = <<"550 content rejected: %s", err>>
    /\ pc' = "done"
    /\ UNCHANGED <<msg_in, orig, imagepath, round, msg, eligible, split, text, html, segs,
                   pload, out, err, mode, stdout, delivered>>

Next ==
    \/ MsgIsToAlter
    \/ ReturnUnaltered
    \/ NewPayloadText
    \/ NewPayloadMime
    \/ AlterPlain
    \/ AlterMulti
    \/ Resubmit
    \/ PipeWrite
    \/ PipeExcept
    \/ ProcessMessageDeliver
    \/ ProcessMessageExcept

Spec == Init /\ [][Next]_vars

\* ============================================================== the claims
\* The vocabulary of the claims, stated on its own and not through the
\* program's regular expressions and loop.
IsPrefix(a, b) == Len(a) <= Len(b) /\ SubSeq(b, 1, Len(a)) = a

\* the lines of a text: a text that ends with a newline ends with its last line
LinesOf(txt) ==
    LET nls == {i \in 1..Len(txt) : txt[i] = NL}
        ends == IF txt # <<>> /\ txt[Len(txt)] # NL THEN nls \cup {Len(txt) + 1} ELSE nls
        start(e) == IF \E i \in nls : i < e
                    THEN 1 + CHOOSE i \in nls : i < e /\ \A j \in nls : j < e => j <= i
                    ELSE 1
        nth(k) == CHOOSE e \in ends : Cardinality({f \in ends : f < e}) = k - 1
    IN [k \in 1..Cardinality(ends) |-> SubSeq(txt, start(nth(k)), nth(k) - 1)]

IsMarker(line) == line \in {<<HT>>, <<HE>>}

\* the mode in force at line k when the classification starts in mode m0:
\* the last marker line before k decides
ModeAt(lines, m0, k) ==
    LET ms == {j \in 1..(k - 1) : IsMarker(lines[j])}
    IN IF ms = {} THEN m0
       ELSE IF lines[CHOOSE j \in ms : \A i \in ms : i <= j] = <<HT>> THEN "Html" ELSE "Plain"

IsPlainLine(lines, m0, k) == ~IsMarker(lines[k]) /\ ModeAt(lines, m0, k) = "Plain"

\* two Plain-mode lines are of one run when no <html> line lies between them
SameRun(lines, j, k) == \A i \in (j + 1)..(k - 1) : lines[i] # <<HT>>

\* what line k gives the html text: nothing (a marker), the line as raw
\* markup (Html mode), or the line inside the preformatted block of its run
RenderLine(lines, m0, k) ==
    IF IsMarker(lines[k]) THEN <<>>
    ELSE IF ModeAt(lines, m0, k) = "Html" THEN lines[k] \o <<NL>>
    ELSE (IF \E j \in 1..(k - 1) : IsPlainLine(lines, m0, j) /\ SameRun(lines, j, k)
          THEN <<>> ELSE <<PRE_OPEN>>)
         \o lines[k] \o <<NL>> \o
         (IF \E j \in (k + 1)..Len(lines) : IsPlainLine(lines, m0, j) /\ SameRun(lines, k, j)
          THEN <<>> ELSE <<PRE_CLOSE>>)

RenderSegments(lines, m0) == Flatten([k \in 1..Len(lines) |-> RenderLine(lines, m0, k)])

\* the Plain-mode lines, each with its newline
PlainLines(lines, m0) ==
    Flatten([k \in 1..Len(lines) |->
                IF IsPlainLine(lines, m0, k) THEN lines[k] \o <<NL>> ELSE <<>>])

\* the first text/plain part of a message: the message itself, or the first
\* text/plain child of a multipart message; <<>> when there is none
FirstPlainPart(m) ==
    IF ~m.multi THEN (IF get_content_type(m) = "text/plain" THEN <<m>> ELSE <<>>)
    ELSE LET ps == {i \in 1..Len(m.parts) : get_content_type(m.parts[i]) = "text/plain"}
         IN IF ps = {} THEN <<>> ELSE <<m.parts[CHOOSE i \in ps : \A j \in ps : i <= j]>>

FirstPlainBody(m) == IF FirstPlainPart(m) = <<>> THEN <<>> ELSE FirstPlainPart(m)[1].body

\* the signature of a message: what _split_content gives for its first
\* text/plain part
SignatureOf(m) == _split_content(FirstPlainBody(m))[2]

HasMarkerLine(sig) == \E k \in 1..Len(LinesOf(sig)) : LinesOf(sig)[k] = <<HT>>

\* the delimiter of section 4.1: the first line that is exactly "-- "
IsDelimLine(txt, i) ==
    /\ i + 1 <= Len(txt) /\ LineStart(txt, i)
    /\ txt[i] = DD /\ txt[i + 1] = SP
    /\ (i + 2 > Len(txt) \/ txt[i + 2] = NL)
DelimLines(txt) == {i \in 1..Len(txt) : IsDelimLine(txt, i)}
FirstDelimLine(txt) == CHOOSE i \in DelimLines(txt) : \A j \in DelimLines(txt) : i <= j
SplitAtFirstDelim(txt) ==
    <<SubSeq(txt, 1, FirstDelimLine(txt) - 1), Drop(txt, FirstDelimLine(txt) + 2)>>

\* the line pieces of a text as unicode.split(u'\n') cuts them: a text that
\* ends with a newline (or is empty) has an empty piece after its last line
Pieces(txt) ==
    IF txt = <<>> \/ txt[Len(txt)] = NL THEN LinesOf(txt) \o <<<<>>>> ELSE LinesOf(txt)

\* the pieces after the first <html> line that a newline ends
AfterFirstMarker(ps) ==
    LET ks == {k \in 1..(Len(ps) - 1) : ps[k] = <<HT>>}
    IN IF ks = {} THEN <<>>
       ELSE SubSeq(ps, 1 + CHOOSE k \in ks : \A j \in ks : k <= j, Len(ps))

BeforeFirstMarker(ps) ==
    LET ks == {k \in 1..(Len(ps) - 1) : ps[k] = <<HT>>}
    IN IF ks = {} THEN ps
       ELSE SubSeq(ps, 1, (CHOOSE k \in ks : \A j \in ks : k <= j) - 1)

Terminal == pc \in {"returned", "raised"}

\* the html text new_payload assembles for the message first handed in
AssembledHtml == assemble(FirstPlainBody(orig)).html

\* the image tags has_attachments is documented to answer True for: a src
\* with a path and no scheme or the file scheme
ResolvableTags(txt) ==
    {i \in ImgPositions(txt) :
        /\ UrlPath(ImgGroup2(txt[i])) # ""
        /\ UrlScheme(ImgGroup2(txt[i])) \in {"", "file"}}

MissingTags(txt, dir) ==
    {i \in ImgPositions(txt) : BaseName(UrlPath(ImgGroup2(txt[i]))) \notin dir}

\* the multipart/alternative part of a result, and its html branch
AlternativeOf(m, res) ==
    IF m.multi
    THEN res.parts[CHOOSE i \in 1..Len(m.parts) :
             /\ get_content_type(m.parts[i]) = "text/plain"
             /\ \A j \in 1..(i - 1) : get_content_type(m.parts[j]) # "text/plain"]
    ELSE res

StripAngle(id) == MsgIdInner(CHOOSE n \in 1..4 : make_msgid(n) = id)

\* ---------------------------------------------------------------------- C1
\* C1: a message whose first text/plain part has no <html> marker line in its
\* signature (no delimiter and no text/plain part included) is handed back
\* unchanged by modify_data, and handed back unchanged again when modify_data
\* is applied to that result.
C1_IneligibleIsIdentity ==
    ~HasMarkerLine(SignatureOf(orig)) =>
        /\ pc \in {"start", "decided", "returned"}
        /\ (pc = "decided" => ~eligible)
        /\ (pc = "returned" => out = <<orig>>)

\* ---------------------------------------------------------------------- C2
\* C2: msg_is_to_alter answers true exactly when the signature of the first
\* text/plain part holds a line equal to <html>, a line being what the loop
\* of new_payload takes for one (so the last line of the signature counts).
C2_EligibleIffMarkerLine ==
    pc = "decided" => (eligible <=> HasMarkerLine(SignatureOf(msg_in)))

\* ---------------------------------------------------------------------- C3
\* C3: for a body with one or more delimiter lines (exactly "-- "),
\* _split_content gives the text before the first delimiter line as content
\* and all the text after that line as signature.
C3_SplitAtFirstDelimiter ==
    (pc = "decided" /\ DelimLines(FirstPlainBody(msg_in)) # {}) =>
        split = SplitAtFirstDelim(FirstPlainBody(msg_in))

\* ---------------------------------------------------------------------- C4
\* C4: the plain branch of new_payload is the content, the line "-- ", then
\* the Plain-mode lines of the signature in order, each with its newline, and
\* nothing else: no Html-mode line, no marker line, no extra line.
C4_PlainBranchExact ==
    /\ pc = "assembled" =>
           text = split[1] \o <<DD, SP, NL>> \o PlainLines(LinesOf(split[2]), "Plain")
    /\ pc = "built" =>
           pload[1].parts[1].body =
               split[1] \o <<DD, SP, NL>> \o PlainLines(LinesOf(split[2]), "Plain")

\* ---------------------------------------------------------------------- C5
\* the run of Plain-mode lines that line k belongs to, counted from 1: a run
\* ends where an <html> line follows
RunNo(lines, m0, k) ==
    Cardinality({j \in 1..k :
                    /\ IsPlainLine(lines, m0, j)
                    /\ ~\E i \in 1..(j - 1) : IsPlainLine(lines, m0, i) /\ SameRun(lines, i, j)})

\* the lines that are no marker, in order, each with the mode it is read in
\* when the classification starts in mode m0 and, for a Plain-mode line, the
\* number of its run (0 for an Html-mode line)
ExpectedEvents(lines, m0) ==
    LET ks == {k \in 1..Len(lines) : ~IsMarker(lines[k])}
        nth(n) == CHOOSE k \in ks : Cardinality({j \in ks : j < k}) = n - 1
    IN [n \in 1..Cardinality(ks) |->
           [tag   |-> ModeAt(lines, m0, nth(n)),
            line  |-> lines[nth(n)],
            block |-> IF ModeAt(lines, m0, nth(n)) = "Plain"
                      THEN RunNo(lines, m0, nth(n)) ELSE 0]]

\* an html text read back: the lines inside the b+1st, b+2nd, ... preformatted
\* block as Plain lines of that block, the lines outside as raw markup
RECURSIVE HtmlEvents(_, _)
HtmlEvents(r, b) ==
    IF r = <<>> THEN <<>>
    ELSE IF Head(r) = PRE_OPEN /\ \E k \in 1..Len(r) : r[k] = PRE_CLOSE THEN
        LET c   == CHOOSE k \in 1..Len(r) :
                       r[k] = PRE_CLOSE /\ \A j \in 1..(k - 1) : r[j] # PRE_CLOSE
            ins == LinesOf(SubSeq(r, 2, c - 1))
        IN [k \in 1..Len(ins) |-> [tag |-> "Plain", line |-> ins[k], block |-> b + 1]]
           \o HtmlEvents(Drop(r, c), b + 1)
    ELSE IF \E k \in 1..Len(r) : r[k] = NL THEN
        LET i == CHOOSE k \in 1..Len(r) : r[k] = NL /\ \A j \in 1..(k - 1) : r[j] # NL
        IN <<[tag |-> "Html", line |-> SubSeq(r, 1, i - 1), block |-> 0]>>
           \o HtmlEvents(Drop(r, i), b)
    ELSE <<[tag |-> "Html", line |-> r, block |-> 0]>>

\* the lines of the signature after its first <html> line that a newline ends
LinesAfterFirstMarker(sig) ==
    LET a == AfterFirstMarker(Pieces(sig))
    IN IF Pieces(sig) # LinesOf(sig) /\ a # <<>> THEN SubSeq(a, 1, Len(a) - 1) ELSE a

LinesBeforeFirstMarker(sig) == BeforeFirstMarker(Pieces(sig))

\* what an html text holds after the header and the content block
AfterContent(t, content) == Drop(t, 1 + Len(txt2html(content)))

\* C5 as claimed: the html text is the content as one preformatted block, then
\* every segment of the signature in order, the Plain-mode lines before the
\* first <html> line included (the classification starts in Plain mode).
C5_HtmlHoldsWholeSignature ==
    pc = "assembled" =>
        /\ IsPrefix(<<HTML_HEADER>> \o txt2html(split[1]), html.txt)
        /\ IsPrefix(ExpectedEvents(LinesOf(split[2]), "Plain"),
                    HtmlEvents(AfterContent(html.txt, split[1]), 0))

\* such an html text: the header, the content as one preformatted block, then
\* every line after the first <html> line that is no marker, once and in
\* original order, an Html-mode line as raw markup and the Plain-mode lines of
\* one run inside one preformatted block of their own; the lines before the
\* first <html> line are not in it
HoldsSegmentsAfterMarker(t, content, sig) ==
    LET exp == ExpectedEvents(LinesAfterFirstMarker(sig), "Html")
        ev  == HtmlEvents(AfterContent(t, content), 0)
    IN /\ IsPrefix(<<HTML_HEADER>> \o txt2html(content), t)
       /\ IsPrefix(exp, ev)
       /\ Len(ev) <= Len(exp) + 1
       /\ Len(ev) = Len(exp) + 1 => ev[Len(ev)].line = <<>>

\* C5 as amended: the html text is the header, the content as one preformatted
\* block, then the segments of the part of the signature that follows its
\* first <html> line, in original order: Html-mode runs as raw markup, each
\* Plain-mode run as a preformatted block.  The signature lines before the
\* first <html> line are in the plain branch only.  The html part of the
\* payload holds this text and the footer.
C5_HtmlHoldsSegmentsAfterMarker ==
    /\ pc = "assembled" =>
           /\ HoldsSegmentsAfterMarker(html.txt, split[1], split[2])
           /\ IsPrefix(split[1] \o <<DD, SP, NL>>
                       \o Flatten([k \in 1..Len(LinesBeforeFirstMarker(split[2])) |->
                                      LinesBeforeFirstMarker(split[2])[k] \o <<NL>>]),
                       text)
    /\ pc = "built" =>
           LET b == pload[1].parts[2].body
           IN /\ b # <<>> /\ b[Len(b)] = HTML_FOOTER
              /\ HoldsSegmentsAfterMarker(SubSeq(b, 1, Len(b) - 1), split[1], split[2])

\* a signature with a plain line before its first <html> line and, after it,
\* an Html-mode run, a Plain-mode run that a later <html> line closes and a
\* second Html-mode run, has been assembled; no newline ends the signature
C5_Witness ==
    /\ pc = "assembled"
    /\ LinesBeforeFirstMarker(split[2]) # <<>>
    /\ Pieces(split[2]) = LinesOf(split[2])
    /\ LET ev == HtmlEvents(AfterContent(html.txt, split[1]), 0)
       IN /\ Len(ev) = 3
          /\ ev[1].tag = "Html"
          /\ ev[2].tag = "Plain" /\ ev[2].block = 1
          /\ ev[3].tag = "Html"
          /\ ev[1].line # ev[3].line

\* ---------------------------------------------------------------------- C6
\* C6: when alter_message has rewritten an eligible multipart message, the
\* result has as many children as before, the child at the index of the
\* first text/plain child is the new multipart/alternative (plain, html)
\* part built from that child, and every other child is the part that was at
\* that index before.
C6_OnlyFirstPlainChildReplaced ==
    (pc = "returned" /\ eligible /\ orig.multi) =>
        LET ps  == {i \in 1..Len(orig.parts) : get_content_type(orig.parts[i]) = "text/plain"}
            res == out[1]
        IN /\ ps # {}
           /\ res.multi
           /\ Len(res.parts) = Len(orig.parts)
           /\ msg = res
           /\ \A i \in ps : (\A j \in ps : i <= j) =>
                  /\ get_content_type(res.parts[i]) = "multipart/alternative"
                  /\ Len(res.parts[i].parts) = 2
                  /\ get_content_type(res.parts[i].parts[1]) = "text/plain"
                  /\ IsPrefix(_split_content(orig.parts[i].body)[1] \o <<DD, SP, NL>>,
                              res.parts[i].parts[1].body)
                  /\ get_content_type(res.parts[i].parts[2]) \in {"text/html", "multipart/related"}
                  /\ \A j \in 1..Len(orig.parts) : j # i => res.parts[j] = orig.parts[j]

\* a multipart message whose first text/plain child is neither its first nor
\* its last child has been rewritten
C6_Witness ==
    /\ pc = "returned" /\ eligible /\ orig.multi
    /\ Len(orig.parts) = 3
    /\ get_content_type(orig.parts[1]) = "application/pdf"
    /\ get_content_type(orig.parts[2]) = "text/plain"
    /\ get_content_type(orig.parts[3]) = "text/plain"
    /\ get_content_type(out[1].parts[2]) = "multipart/alternative"

\* ---------------------------------------------------------------------- C7
\* C7 as claimed: the new root's headers begin with the original headers whose
\* name does not begin with Content-, in their order, duplicates kept; the
\* root is multipart/alternative with the plain leaf and the html part.
C7_RootCopiesEveryOtherHeader ==
    (pc = "returned" /\ eligible /\ ~orig.multi) =>
        /\ IsPrefix(SelectSeq(orig.hdrs, LAMBDA h : ~StartsWithContent(h[1])), out[1].hdrs)
        /\ get_content_type(out[1]) = "multipart/alternative"
        /\ Len(out[1].parts) = 2

\* the headers copy_mime_root keeps: not named Content-..., and not named
\* MIME-Version or Content-Type in any letter case
KeptHeaders(hdrs) ==
    SelectSeq(hdrs, LAMBDA h : /\ ~StartsWithContent(h[1])
                               /\ Lower(h[1]) \notin {"mime-version", "content-type"})

\* C7 as amended: the new root's headers are the original headers whose name
\* neither begins with Content- nor is, in any letter case, MIME-Version or
\* Content-Type, in their order, duplicates kept; then a new MIME-Version: 1.0,
\* a new Content-Type of type multipart/alternative and X-Modified-By.  Its
\* children are the plain leaf and then the html part.
C7_RootCopiesKeptHeaders ==
    (pc = "returned" /\ eligible /\ ~orig.multi) =>
        LET res == out[1]
            n   == Len(KeptHeaders(orig.hdrs))
        IN /\ res.multi
           /\ Len(res.hdrs) = n + 3
           /\ SubSeq(res.hdrs, 1, n) = KeptHeaders(orig.hdrs)
           /\ res.hdrs[n + 1] = <<"MIME-Version", "1.0">>
           /\ res.hdrs[n + 2][1] = "Content-Type"
           /\ get_content_type(res) = "multipart/alternative"
           /\ res.hdrs[n + 3] = <<"X-Modified-By", VERSION_HDR>>
           /\ Len(res.parts) = 2
           /\ get_content_type(res.parts[1]) = "text/plain" /\ ~res.parts[1].multi
           /\ res.parts[1].body = text
           /\ get_content_type(res.parts[2]) \in {"text/html", "multipart/related"}
           /\ msg = orig

\* a single-part message with a repeated header and a Content- header has
\* been rewritten
C7_Witness ==
    /\ pc = "returned" /\ eligible /\ ~orig.multi
    /\ Len(SelectSeq(orig.hdrs, LAMBDA h : h[1] = "Received")) = 2
    /\ Len(SelectSeq(out[1].hdrs, LAMBDA h : h[1] = "Received")) = 2
    /\ \E i \in 1..Len(orig.hdrs) : StartsWithContent(orig.hdrs[i][1])

\* ---------------------------------------------------------------------- C8
\* C8: when the assembled html holds an image tag with a bare path or a file:
\* URI and the image directory holds every image, new_payload succeeds: the
\* html branch is multipart/related, with the html leaf and one attachment
\* for each tag, each tag's src is cid:<id> with <id> the attachment's
\* Content-ID without its angle brackets, and the rest of the tag is as it was.
C8_ImagesBecomeAttachments ==
    (Terminal /\ eligible /\ ResolvableTags(AssembledHtml) # {}
              /\ MissingTags(AssembledHtml, imagepath) = {}) =>
        /\ pc = "returned"
        /\ LET rel  == AlternativeOf(orig, out[1]).parts[2]
               tags == ImgPositions(AssembledHtml)
           IN /\ get_content_type(rel) = "multipart/related"
              /\ Len(rel.parts) = 1 + Cardinality(tags)
              /\ get_content_type(rel.parts[1]) = "text/html"
              /\ \A i \in tags :
                     LET k == Cardinality({j \in tags : j <= i})
                     IN rel.parts[1].body[i] =
                            ImgGroup1(AssembledHtml[i]) \o "cid:"
                            \o StripAngle(GetHeader(rel.parts[k + 1].hdrs, "Content-ID"))
                            \o ImgGroup3(AssembledHtml[i])

\* ---------------------------------------------------------------------- C9
\* C9: when an image the assembled html refers to cannot be opened in the
\* image directory, the rewrite fails with an image-resolution error (the
\* IOError of open), nothing is returned and the input message is as it was.
C9_MissingImageFailsWhole ==
    (Terminal /\ eligible /\ MissingTags(AssembledHtml, imagepath) # {}) =>
        /\ pc = "raised"
        /\ err = "IOError"
        /\ out = <<>>
        /\ msg = orig

\* --------------------------------------------------------------------- C10
\* C10: has_attachments answers True exactly when some image tag of the html
\* text has a src with a path and no scheme or the file scheme, and answers
\* False without raising otherwise; the html branch is multipart/related
\* exactly when it answers True.
C10_HasAttachmentsDecides ==
    ((pc = "built" \/ (pc = "raised" /\ html.txt # <<>>))) =>
        /\ err = "none"
        /\ (get_content_type(pload[1].parts[2]) = "multipart/related")
               <=> (ResolvableTags(AssembledHtml) # {})

\* --------------------------------------------------------------------- C11
\* the marker lines among the lines ls, in order
MarkerLines(ls) ==
    LET ks == {k \in 1..Len(ls) : IsMarker(ls[k])}
        nth(n) == CHOOSE k \in ks : Cardinality({j \in ks : j < k}) = n - 1
    IN [n \in 1..Cardinality(ks) |-> ls[nth(n)]]

\* properly paired: the marker lines go <html>, </html>, <html>, </html>, ...
\* and the last one is a </html>
ProperlyPaired(ls) ==
    LET ms == MarkerLines(ls)
    IN /\ Len(ms) % 2 = 0
       /\ \A n \in 1..Len(ms) : ms[n] = IF n % 2 = 1 THEN <<HT>> ELSE <<HE>>

PairCount(ls) == Len(MarkerLines(ls)) \div 2

\* every marker pair encloses a line
EveryPairHoldsALine(ls) ==
    \A k \in 1..Len(ls) : ls[k] = <<HT>> => (k < Len(ls) /\ ls[k + 1] # <<HE>>)

\* the lines of the segments, in order, each with the tag of its segment and,
\* for a Plain segment, the number of that segment among the Plain ones
RECURSIVE SegEvents(_, _)
SegEvents(ss, b) ==
    IF ss = <<>> THEN <<>>
    ELSE LET h  == Head(ss)
             nb == IF h.tag = "Plain" THEN b + 1 ELSE b
         IN [k \in 1..Len(h.lines) |->
                [tag |-> h.tag, line |-> h.lines[k],
                 block |-> IF h.tag = "Plain" THEN nb ELSE 0]]
            \o SegEvents(Tail(ss), nb)

TagsAlternate(ss) == \A i \in 1..(Len(ss) - 1) : ss[i].tag # ss[i + 1].tag

SegmentsOf(ss, tag) == {i \in 1..Len(ss) : ss[i].tag = tag}

\* the signature new_payload has classified
ClassifiedSignature == split[2]

\* the segments of the lines of the signature: where a newline ends the
\* signature the loop emits one more, empty line at the very end (see C4),
\* which is left out here
SignatureSegs ==
    IF Pieces(ClassifiedSignature) = LinesOf(ClassifiedSignature) \/ segs = <<>> THEN segs
    ELSE IF Len(segs[Len(segs)].lines) = 1 THEN SubSeq(segs, 1, Len(segs) - 1)
    ELSE [segs EXCEPT ![Len(segs)].lines = SubSeq(@, 1, Len(@) - 1)]

\* the segments that reach the html text: all but the text before the first
\* <html> line
LoopSegs == IF LinesBeforeFirstMarker(ClassifiedSignature) = <<>> THEN segs ELSE Tail(segs)

FullyRewritten(m, res) ==
    /\ res.hdrs # <<>> /\ res.hdrs[Len(res.hdrs)][1] = "X-Modified-By"
    /\ LET alt == AlternativeOf(m, res)
       IN /\ get_content_type(alt) = "multipart/alternative"
          /\ Len(alt.parts) = 2
          /\ get_content_type(alt.parts[1]) = "text/plain"
          /\ get_content_type(alt.parts[2]) \in {"text/html", "multipart/related"}

Is550(r) == r # <<>> /\ r[1] \in {"550 content rejected:", "550 content rejected: %s"}

\* C12: in pipe mode nothing is written before the end, and at the end
\* exactly one message has been written: the serialized, fully rewritten
\* message when the rewrite completed, and otherwise (message not eligible, or
\* an exception in any step) the input as it was read; in the proxy an
\* exception in the rewrite gives a 550 reply and nothing is handed to
\* _deliver.
C12_OneMessageOutOrRejected ==
    /\ mode = "pipe" =>
          /\ pc # "done" => stdout = <<>>
          /\ pc = "done" =>
                /\ Len(stdout) = 1
                /\ IF err = "none" /\ eligible
                   THEN /\ stdout[1].form = "as_string"
                        /\ FullyRewritten(msg_in, stdout[1].msg)
                   ELSE stdout[1] = input_verbatim(msg_in)
          /\ delivered = <<>> /\ reply = <<>>
    /\ mode = "smtp" =>
          /\ stdout = <<>>
          /\ pc # "done" => reply = <<>> /\ delivered = <<>>
          /\ (pc = "done" /\ err # "none") => Is550(reply) /\ delivered = <<>>
          /\ (pc = "done" /\ err = "none") => Len(delivered) = 1

\* pipe mode: the rewrite of an eligible message raised after the texts were
\* assembled, and the input has been written as it was read
C12_Witness ==
    /\ mode = "pipe" /\ pc = "done"
    /\ eligible /\ err # "none" /\ html # NoHtml
    /\ stdout = <<input_verbatim(orig)>>

====
